---- MODULE Spec2Model ----
(***************************************************************************)
(* A model of grequests' request construction (src/request.go): the URL    *)
(* merge, the body encoder, the client builder, the header steps and the   *)
(* hand-over to the transport executor.                                    *)
(*                                                                         *)
(* Strings whose characters matter (URLs, query keys and values) are       *)
(* sequences of one-character strings; opaque strings (content types,      *)
(* header values, error texts) are TLA+ strings.  A Go value that may be   *)
(* nil is None (<<>>) or Some(v) (<<v>>).                                  *)
(***************************************************************************)
EXTENDS Integers, Sequences, FiniteSets, TLC

VARIABLES ro, httpMethod, userURL, stream, allocated, dispatched, out, calls

vars == <<ro, httpMethod, userURL, stream, allocated, dispatched, out, calls>>

(***************************************************************************)
(* Bounds of the model.                                                    *)
(***************************************************************************)
MaxQueryItems == 2
MaxHeaders == 2
MaxCalls == 2
MaxData == 1

(***************************************************************************)
(* Optional values.                                                        *)
(***************************************************************************)
None == <<>>
Some(v) == <<v>>
IsNil(x) == x = <<>>
Val(x) == x[1]

NoErr == ""

(***************************************************************************)
(* Characters and strings.                                                 *)
(***************************************************************************)
\* the characters of the model in ASCII order
Alphabet == <<" ", "#", "%", "&", "+", "1", "2", "=", "?", "B", "a", "b", "c", "f", "u", "~">>

Ord(c) == CHOOSE i \in 1..Len(Alphabet) : Alphabet[i] = c

RECURSIVE StrLess(_, _)
\* Go's string order (sort.Strings in url.Values.Encode)
StrLess(s, t) ==
    IF t = <<>> THEN FALSE
    ELSE IF s = <<>> THEN TRUE
    ELSE IF Head(s) # Head(t) THEN Ord(Head(s)) < Ord(Head(t))
    ELSE StrLess(Tail(s), Tail(t))

\* strings.Index: the first position of sep in s, 0 when there is none
Index(s, sep) ==
    LET P == { i \in 1..(Len(s) - Len(sep) + 1) : SubSeq(s, i, i + Len(sep) - 1) = sep }
    IN IF P = {} THEN 0 ELSE CHOOSE i \in P : \A j \in P : i <= j

\* the split of s at position i of sep (0: sep does not occur)
CutAt(s, sep, i) ==
    IF i = 0 THEN [before |-> s, after |-> <<>>, found |-> FALSE]
    ELSE [before |-> SubSeq(s, 1, i - 1),
          after |-> SubSeq(s, i + Len(sep), Len(s)),
          found |-> TRUE]

\* the split of s at the first sep: what precedes it, what follows it
Cut(s, sep) == CutAt(s, sep, Index(s, sep))

RECURSIVE Replace(_, _)
\* s without the occurrence of old at position i and without those after it
ReplaceAt(s, old, i) ==
    IF i = 0 THEN s
    ELSE SubSeq(s, 1, i - 1) \o Replace(SubSeq(s, i + Len(old), Len(s)), old)

\* strings.Replace(s, old, "", -1) for a non-empty old: every
\* non-overlapping occurrence of old is removed, left to right
Replace(s, old) == ReplaceAt(s, old, Index(s, old))

\* strings.Join([]string{a, b}, sep)
Join2(a, b, sep) == a \o sep \o b

(***************************************************************************)
(* Percent-encoding (net/url).                                             *)
(***************************************************************************)
\* the characters QueryEscape leaves alone
Unreserved == {"1", "2", "B", "a", "b", "c", "f", "u"}

\* the two hex digits of the characters QueryEscape encodes
HexOf(c) ==
    CASE c = "#" -> <<"2", "3">>
      [] c = "%" -> <<"2", "5">>
      [] c = "&" -> <<"2", "6">>
      [] c = "+" -> <<"2", "B">>
      [] c = "=" -> <<"3", "D">>
      [] c = "?" -> <<"3", "F">>
      [] OTHER -> <<"7", "E">>

HexDigits == {"1", "2", "3", "5", "6", "7", "B", "D", "E", "F", "a", "b", "c", "f"}

Escaped == {"#", "%", "&", "+", "=", "?", "~"}

\* the escape of one character
EscapeChar(c) ==
    IF c = " " THEN <<"+">>
    ELSE IF c \in Unreserved THEN <<c>>
    ELSE <<"%">> \o HexOf(c)

RECURSIVE QueryEscape(_)
\* url.QueryEscape: a space becomes "+", a reserved character "%XX"
QueryEscape(s) ==
    IF s = <<>> THEN <<>> ELSE EscapeChar(Head(s)) \o QueryEscape(Tail(s))

\* the character "%XY" encodes; "~" is a byte outside the model's characters
UnescapeHex(x, y) ==
    IF \E c \in Escaped : HexOf(c) = <<x, y>>
    THEN CHOOSE c \in Escaped : HexOf(c) = <<x, y>>
    ELSE "~"

\* the character c followed by the unescaped rest, or the error of the rest
Unescaped(c, rest) ==
    IF rest.err # NoErr THEN rest ELSE [err |-> NoErr, s |-> <<c>> \o rest.s]

RECURSIVE QueryUnescape(_)
\* url.QueryUnescape: "+" becomes a space, "%XX" the character it encodes;
\* a "%" that is not followed by two hex digits is an error
QueryUnescape(s) ==
    IF s = <<>> THEN [err |-> NoErr, s |-> <<>>]
    ELSE IF Head(s) = "%" THEN
        IF Len(s) < 3 \/ s[2] \notin HexDigits \/ s[3] \notin HexDigits
        THEN [err |-> "invalid URL escape", s |-> <<>>]
        ELSE Unescaped(UnescapeHex(s[2], s[3]), QueryUnescape(SubSeq(s, 4, Len(s))))
    ELSE Unescaped(IF Head(s) = "+" THEN " " ELSE Head(s), QueryUnescape(Tail(s)))

(***************************************************************************)
(* url.Values: a map from keys to the list of their values.                *)
(***************************************************************************)
EmptyValues == [k \in {} |-> <<>>]

\* url.Values.Set: the key's values are replaced by the one value
ValuesSet(m, key, value) ==
    [k \in DOMAIN m \cup {key} |-> IF k = key THEN <<value>> ELSE m[k]]

\* url.Values.Add: the value is appended to the key's values
ValuesAdd(m, key, value) ==
    [k \in DOMAIN m \cup {key} |->
        IF k = key THEN (IF key \in DOMAIN m THEN m[key] ELSE <<>>) \o <<value>>
        ELSE m[k]]

RECURSIVE SortKeys(_)
SortKeys(S) ==
    IF S = {} THEN <<>>
    ELSE LET m == CHOOSE x \in S : \A y \in S \ {x} : StrLess(x, y)
         IN <<m>> \o SortKeys(S \ {m})

RECURSIVE EncodeKey(_, _)
\* "k=v1&k=v2" for the values vs of the key k
EncodeKey(k, vs) ==
    IF vs = <<>> THEN <<>>
    ELSE QueryEscape(k) \o <<"=">> \o QueryEscape(Head(vs))
         \o (IF Tail(vs) = <<>> THEN <<>> ELSE <<"&">> \o EncodeKey(k, Tail(vs)))

\* h and t joined by "&", unless one of them is empty
JoinAmp(h, t) ==
    IF h = <<>> THEN t
    ELSE IF t = <<>> THEN h
    ELSE h \o <<"&">> \o t

RECURSIVE EncodeKeys(_, _)
EncodeKeys(m, keys) ==
    IF keys = <<>> THEN <<>>
    ELSE JoinAmp(EncodeKey(Head(keys), m[Head(keys)]), EncodeKeys(m, Tail(keys)))

\* url.Values.Encode: "k=v" pairs joined by "&", keys in sorted order
ValuesEncode(m) == EncodeKeys(m, SortKeys(DOMAIN m))

RECURSIVE parseQuery(_, _)
\* the pair with the unescaped key and value, then the rest of the query: a
\* pair with a bad escape is dropped and its error is the one reported
parsePair(m, key, value, rest) ==
    IF key.err # NoErr \/ value.err # NoErr
    THEN [err |-> IF key.err # NoErr THEN key.err ELSE value.err,
          m |-> parseQuery(m, rest).m]
    ELSE parseQuery(ValuesAdd(m, key.s, value.s), rest)

\* the pair "k=v" split at its first "=", then the rest of the query
parseKeyValue(m, kv, rest) ==
    parsePair(m, QueryUnescape(kv.before), QueryUnescape(kv.after), rest)

\* the query split at its first "&"; an empty pair is skipped
parseNext(m, c) ==
    IF c.before = <<>> THEN parseQuery(m, c.after)
    ELSE parseKeyValue(m, Cut(c.before, <<"=">>), c.after)

\* url.ParseQuery: the pairs that parse are kept, a pair with a bad escape
\* is dropped and the first such error is reported alongside the map
parseQuery(m, query) ==
    IF query = <<>> THEN [err |-> NoErr, m |-> m]
    ELSE parseNext(m, Cut(query, <<"&">>))

ParseQuery(query) == parseQuery(EmptyValues, query)

(***************************************************************************)
(* url.URL: the text before the query (scheme, host and path, kept as      *)
(* written), the raw query and the fragment.                               *)
(***************************************************************************)
\* the result of a url.Parse that failed
ParseError(e) ==
    [err |-> e, Base |-> <<>>, RawQuery |-> <<>>, ForceQuery |-> FALSE, Fragment |-> <<>>]

\* the URL of the split q at the first "?" and the fragment, base and frag
\* being the unescaped text before the query and the unescaped fragment
parseParts(q, fragment, base, frag) ==
    IF base.err # NoErr THEN ParseError(base.err)
    ELSE IF frag.err # NoErr THEN ParseError(frag.err)
    ELSE [err |-> NoErr, Base |-> q.before, RawQuery |-> q.after,
          ForceQuery |-> q.found /\ q.after = <<>>, Fragment |-> fragment]

\* the raw query is what follows the first "?" of what precedes the fragment
parseRest(q, fragment) ==
    parseParts(q, fragment, QueryUnescape(q.before), QueryUnescape(fragment))

\* the fragment is what follows the first "#"
parseFragment(f) == parseRest(Cut(f.before, <<"?">>), f.after)

\* url.Parse; a bad escape outside the query is an error
Parse(rawurl) == parseFragment(Cut(rawurl, <<"#">>))

\* URL.String: base, "?" and the raw query when there is one, "#" and the
\* fragment when there is one
URLString(u) ==
    u.Base
    \o (IF u.ForceQuery \/ u.RawQuery # <<>> THEN <<"?">> \o u.RawQuery ELSE <<>>)
    \o (IF u.Fragment # <<>> THEN <<"#">> \o u.Fragment ELSE <<>>)

RECURSIVE rangeSet(_, _, _)
\* for key, value := range params { parsedQuery.Set(key, value) }
rangeSet(m, params, keys) ==
    IF keys = {} THEN m
    ELSE LET k == CHOOSE x \in keys : TRUE
         IN rangeSet(ValuesSet(m, k, params[k]), params, keys \ {k})

\* buildURLParams after url.Parse: the error of url.ParseQuery is assigned
\* and never read
mergeParams(parsedURL, params) ==
    IF parsedURL.err # NoErr THEN [url |-> <<>>, err |-> parsedURL.err]
    ELSE [url |-> Join2(Replace(URLString(parsedURL), <<"?">> \o parsedURL.RawQuery),
                        ValuesEncode(rangeSet(ParseQuery(parsedURL.RawQuery).m,
                                              params, DOMAIN params)),
                        <<"?">>),
          err |-> NoErr]

buildURLParams(url, params) == mergeParams(Parse(url), params)

(***************************************************************************)
(* http.Request and http.Header.                                           *)
(***************************************************************************)
\* textproto.CanonicalMIMEHeaderKey on the header names of the model
CanonicalHeaderKey(k) ==
    CASE k = "content-type" -> "Content-Type"
      [] k = "user-agent" -> "User-Agent"
      [] OTHER -> k

EmptyHeader == [k \in {} |-> <<>>]

\* http.Header.Set: the canonical key holds the one value
HeaderSet(h, key, value) ==
    [k \in DOMAIN h \cup {CanonicalHeaderKey(key)} |->
        IF k = CanonicalHeaderKey(key) THEN <<value>> ELSE h[k]]

\* http.Header.Add: the value is appended to the canonical key's values
HeaderAdd(h, key, value) ==
    [k \in DOMAIN h \cup {CanonicalHeaderKey(key)} |->
        IF k = CanonicalHeaderKey(key)
        THEN (IF k \in DOMAIN h THEN h[k] ELSE <<>>) \o <<value>>
        ELSE h[k]]

\* a header value is a tuple of strings
HV(s) == <<s>>

NoBody == [kind |-> "none"]

\* http.NewRequest: fails when the URL does not parse; the header is empty
NewRequest(method, url, body) ==
    IF Parse(url).err # NoErr
    THEN [req |-> None, err |-> "parse error"]
    ELSE [req |-> Some([Method |-> method, URL |-> url, Body |-> body,
                        Header |-> EmptyHeader, Cookies |-> <<>>]),
          err |-> NoErr]

WithHeader(req, h) == [req EXCEPT !.Header = h]

(***************************************************************************)
(* The input stream of a file upload (io.ReadCloser): data is what it      *)
(* holds, fails says whether Read ends in an error other than io.EOF after *)
(* failAfter bytes, closed counts the calls of Close.                      *)
(***************************************************************************)
\* io.Copy: reads until io.EOF (err is nil) or until Read fails
ioCopy(st) ==
    IF st.fails
    THEN [written |-> SubSeq(st.data, 1, st.failAfter), err |-> "read error"]
    ELSE [written |-> st.data, err |-> NoErr]

\* FileContents.Close
Close(st) == [st EXCEPT !.closed = @ + 1]

\* mime.TypeByExtension on the file names of the model
TypeByExtension(name) == IF name = "f.txt" THEN "text/plain" ELSE ""

(***************************************************************************)
(* The body encoder.  Every function returns the request (or None), the    *)
(* error and the stream as the call leaves it.                             *)
(***************************************************************************)
\* the Go zero value of a map that is nil
MapOf(opt) == IF IsNil(opt) THEN EmptyValues ELSE Val(opt)

encodePostValues(postValues) ==
    ValuesEncode(rangeSet(EmptyValues, postValues, DOMAIN postValues))

\* if err != nil { return nil, err }; req.Header.Set("Content-Type", ct);
\* return req, nil -- r is the result of http.NewRequest
setContentType(r, ct, st) ==
    IF r.err # NoErr THEN [req |-> None, err |-> r.err, stream |-> st]
    ELSE [req |-> Some(WithHeader(Val(r.req),
                                  HeaderSet(Val(r.req).Header, "Content-Type", HV(ct)))),
          err |-> NoErr, stream |-> st]

createBasicRequest(method, url, o, st) ==
    setContentType(NewRequest(method, url,
                              [kind |-> "form", text |-> encodePostValues(MapOf(o.Data))]),
                   "application/x-www-form-urlencoded", st)

createBasicJSONRequest(method, url, o, st) ==
    IF Val(o.JSON) = "unserializable"
    THEN [req |-> None, err |-> "json: unsupported type", stream |-> st]
    ELSE setContentType(NewRequest(method, url, [kind |-> "json", value |-> Val(o.JSON)]),
                        "application/json", st)

createBasicXMLRequest(method, url, o, st) ==
    IF Val(o.XML) = "unserializable"
    THEN [req |-> None, err |-> "xml: unsupported type", stream |-> st]
    ELSE setContentType(NewRequest(method, url, [kind |-> "xml", value |-> Val(o.XML)]),
                        "application/xml", st)

\* createMultiPartPostRequest from multipartWriter.Close on, the deferred
\* Close of the stream registered: it runs on either return
multiPartRequest(r, st) ==
    IF r.err # NoErr THEN [req |-> None, err |-> r.err, stream |-> Close(st)]
    ELSE [req |-> Some(WithHeader(Val(r.req),
                                  HeaderAdd(Val(r.req).Header, "Content-Type",
                                            HV("multipart/form-data")))),
          err |-> NoErr, stream |-> Close(st)]

\* createMultiPartPostRequest from io.Copy on: the Close of the stream is
\* deferred after io.Copy has returned without error, so the return of the
\* error of io.Copy leaves the stream as it is
multiPartCopied(method, url, o, st, copy) ==
    IF copy.err # NoErr
    THEN [req |-> None, err |-> copy.err, stream |-> st]
    ELSE multiPartRequest(NewRequest(method, url,
                                     [kind |-> "multipart", name |-> Val(o.File).FileName,
                                      file |-> copy.written, fields |-> MapOf(o.Data)]),
                          st)

\* createMultiPartPostRequest without the check of FileContents against
\* nil: the missing stream is read as an empty one
createMultiPartPostRequest_NoNilCheck(method, url, o, st) ==
    multiPartCopied(method, url, o, st, ioCopy(st))

\* createMultiPartPostRequest: the multipart writer writes to a
\* bytes.Buffer and does not fail
createMultiPartPostRequest(method, url, o, st) ==
    IF IsNil(Val(o.File).FileContents)
    THEN [req |-> None, err |-> "grequests: Pointer FileContents cannot be nil",
          stream |-> st]
    ELSE multiPartCopied(method, url, o, st, ioCopy(st))

createFileUploadRequest(method, url, o, st) ==
    IF method = "POST" THEN createMultiPartPostRequest(method, url, o, st)
    ELSE setContentType(NewRequest(method, url,
                                   IF IsNil(Val(o.File).FileContents) THEN NoBody
                                   ELSE [kind |-> "raw", name |-> Val(o.File).FileName]),
                        TypeByExtension(Val(o.File).FileName), st)

\* return http.NewRequest(httpMethod, userURL, nil)
bodyless(r, st) == [req |-> r.req, err |-> r.err, stream |-> st]

\* buildHTTPRequest with XML tested before JSON
buildHTTPRequest_XMLFirst(method, url, o, st) ==
    IF ~IsNil(o.XML) THEN createBasicXMLRequest(method, url, o, st)
    ELSE IF ~IsNil(o.JSON) THEN createBasicJSONRequest(method, url, o, st)
    ELSE IF ~IsNil(o.File) THEN createFileUploadRequest(method, url, o, st)
    ELSE IF ~IsNil(o.Data) THEN createBasicRequest(method, url, o, st)
    ELSE bodyless(NewRequest(method, url, NoBody), st)

buildHTTPRequest(method, url, o, st) ==
    IF ~IsNil(o.JSON) THEN createBasicJSONRequest(method, url, o, st)
    ELSE IF ~IsNil(o.XML) THEN createBasicXMLRequest(method, url, o, st)
    ELSE IF ~IsNil(o.File) THEN createFileUploadRequest(method, url, o, st)
    ELSE IF ~IsNil(o.Data) THEN createBasicRequest(method, url, o, st)
    ELSE bodyless(NewRequest(method, url, NoBody), st)

(***************************************************************************)
(* RequestOptions and the client builder.                                  *)
(***************************************************************************)
\* the default timeouts of a dedicated client, in seconds
dialTimeout == 30
dialKeepAlive == 30
tslHandshakeTimeout == 10

\* references to http.Client values: nil, http.DefaultClient, a client the
\* caller constructed; a client BuildHTTPClient constructs gets a larger one
NilClient == 0
DefaultClient == 1
UserClient == 2

\* &RequestOptions{}
EmptyOptions ==
    [Data |-> None, Params |-> EmptyValues, File |-> None, JSON |-> None, XML |-> None,
     Headers |-> EmptyValues, InsecureSkipVerify |-> FALSE, DisableCompression |-> FALSE,
     UserAgent |-> "", Auth |-> None, IsAjax |-> FALSE, Cookies |-> <<>>,
     UseCookieJar |-> FALSE, Proxies |-> EmptyValues, TLSHandshakeTimeout |-> 0,
     DialTimeout |-> 0, DialKeepAlive |-> 0, HTTPClient |-> NilClient]

\* len(m) of a map
MapLen(m) == Cardinality(DOMAIN m)

\* proxySettings falling back to an entry of the map when the map has no
\* entry for the scheme
proxySettings_AnyEntry(o, scheme, env) ==
    IF MapLen(o.Proxies) = 0 THEN env
    ELSE IF scheme \in DOMAIN o.Proxies THEN [url |-> o.Proxies[scheme], err |-> NoErr]
    ELSE [url |-> o.Proxies[CHOOSE k \in DOMAIN o.Proxies : TRUE], err |-> NoErr]

\* proxySettings: env is the answer of http.ProxyFromEnvironment(req)
proxySettings(o, scheme, env) ==
    IF MapLen(o.Proxies) = 0 THEN env
    ELSE IF scheme \in DOMAIN o.Proxies THEN [url |-> o.Proxies[scheme], err |-> NoErr]
    ELSE env

\* DontUseDefaultClient without the test of Cookies
DontUseDefaultClient_NoCookies(o) ==
    \/ o.InsecureSkipVerify = TRUE
    \/ o.DisableCompression = TRUE
    \/ MapLen(o.Proxies) # 0
    \/ o.TLSHandshakeTimeout # 0
    \/ o.DialTimeout # 0
    \/ o.DialKeepAlive # 0
    \/ o.UseCookieJar # FALSE

DontUseDefaultClient(o) ==
    \/ o.InsecureSkipVerify = TRUE
    \/ o.DisableCompression = TRUE
    \/ MapLen(o.Proxies) # 0
    \/ o.TLSHandshakeTimeout # 0
    \/ o.DialTimeout # 0
    \/ o.DialKeepAlive # 0
    \/ Len(o.Cookies) # 0
    \/ o.UseCookieJar # FALSE

\* &http.Client{...}: a reference no live client has
NewClient(alloc) ==
    CHOOSE c \in (UserClient + 1)..(UserClient + Cardinality(alloc) + 1) : c \notin alloc

\* BuildHTTPClient receiving the options by reference: the defaults are
\* written into the caller's value
BuildHTTPClient_ByReference(o, alloc) ==
    LET o1 == IF o.TLSHandshakeTimeout = 0
              THEN [o EXCEPT !.TLSHandshakeTimeout = tslHandshakeTimeout] ELSE o
        o2 == IF o1.DialTimeout = 0 THEN [o1 EXCEPT !.DialTimeout = dialTimeout] ELSE o1
        o3 == IF o2.DialKeepAlive = 0 THEN [o2 EXCEPT !.DialKeepAlive = dialKeepAlive] ELSE o2
        c == NewClient(alloc)
    IN IF o.HTTPClient # NilClient
       THEN [client |-> o.HTTPClient, cfg |-> None, allocated |-> alloc, caller |-> o]
       ELSE IF ~DontUseDefaultClient(o)
       THEN [client |-> DefaultClient, cfg |-> None, allocated |-> alloc, caller |-> o]
       ELSE [client |-> c,
             cfg |-> Some([Jar |-> TRUE, Proxy |-> o3,
                           Timeout |-> o3.DialTimeout, KeepAlive |-> o3.DialKeepAlive,
                           TLSHandshakeTimeout |-> o3.TLSHandshakeTimeout,
                           InsecureSkipVerify |-> o3.InsecureSkipVerify,
                           DisableCompression |-> o3.DisableCompression]),
             allocated |-> alloc \cup {c}, caller |-> o3]

\* BuildHTTPClient receives the options by value: the defaults are written
\* into its own copy, and caller is the caller's value as the call leaves it
BuildHTTPClient(o, alloc) ==
    LET o1 == IF o.TLSHandshakeTimeout = 0
              THEN [o EXCEPT !.TLSHandshakeTimeout = tslHandshakeTimeout] ELSE o
        o2 == IF o1.DialTimeout = 0 THEN [o1 EXCEPT !.DialTimeout = dialTimeout] ELSE o1
        o3 == IF o2.DialKeepAlive = 0 THEN [o2 EXCEPT !.DialKeepAlive = dialKeepAlive] ELSE o2
        c == NewClient(alloc)
    IN IF o.HTTPClient # NilClient
       THEN [client |-> o.HTTPClient, cfg |-> None, allocated |-> alloc, caller |-> o]
       ELSE IF ~DontUseDefaultClient(o)
       THEN [client |-> DefaultClient, cfg |-> None, allocated |-> alloc, caller |-> o]
       ELSE [client |-> c,
             cfg |-> Some([Jar |-> TRUE, Proxy |-> o3,
                           Timeout |-> o3.DialTimeout, KeepAlive |-> o3.DialKeepAlive,
                           TLSHandshakeTimeout |-> o3.TLSHandshakeTimeout,
                           InsecureSkipVerify |-> o3.InsecureSkipVerify,
                           DisableCompression |-> o3.DisableCompression]),
             allocated |-> alloc \cup {c}, caller |-> o]

(***************************************************************************)
(* The request assembler.                                                  *)
(***************************************************************************)
\* the library's default User-Agent; its text is set outside request.go
localUserAgent == "GRequests"

RECURSIVE rangeHeaders(_, _, _)
\* for key, value := range ro.Headers { req.Header.Set(key, value) }, the
\* keys visited in the given order
rangeHeaders(h, headers, order) ==
    IF order = <<>> THEN h
    ELSE rangeHeaders(HeaderSet(h, Head(order), headers[Head(order)]), headers, Tail(order))

\* req.SetBasicAuth
SetBasicAuth(h, username, password) ==
    HeaderSet(h, "Authorization", <<"Basic", username, password>>)

\* addHTTPHeaders with the Headers entries applied last
addHTTPHeaders_HeadersLast(o, req, order) ==
    LET h2 == IF o.UserAgent # ""
              THEN HeaderSet(req.Header, "User-Agent", HV(o.UserAgent))
              ELSE HeaderSet(req.Header, "User-Agent", HV(localUserAgent))
        h3 == IF ~IsNil(o.Auth)
              THEN SetBasicAuth(h2, Val(o.Auth)[1], Val(o.Auth)[2])
              ELSE h2
        h4 == IF o.IsAjax = TRUE
              THEN HeaderSet(h3, "X-Requested-With", HV("XMLHttpRequest"))
              ELSE h3
        h5 == rangeHeaders(h4, o.Headers, order)
    IN IF ~IsNil(o.Auth) /\ Len(Val(o.Auth)) < 2
       THEN [panic |-> TRUE, req |-> req]
       ELSE [panic |-> FALSE, req |-> WithHeader(req, h5)]

\* addHTTPHeaders: ro.Auth[0] or ro.Auth[1] is out of range when Auth is
\* not nil and has fewer than two elements, which panics
addHTTPHeaders(o, req, order) ==
    LET h1 == rangeHeaders(req.Header, o.Headers, order)
        h2 == IF o.UserAgent # ""
              THEN HeaderSet(h1, "User-Agent", HV(o.UserAgent))
              ELSE HeaderSet(h1, "User-Agent", HV(localUserAgent))
        h3 == IF ~IsNil(o.Auth)
              THEN SetBasicAuth(h2, Val(o.Auth)[1], Val(o.Auth)[2])
              ELSE h2
        h4 == IF o.IsAjax = TRUE
              THEN HeaderSet(h3, "X-Requested-With", HV("XMLHttpRequest"))
              ELSE h3
    IN IF ~IsNil(o.Auth) /\ Len(Val(o.Auth)) < 2
       THEN [panic |-> TRUE, req |-> req]
       ELSE [panic |-> FALSE, req |-> WithHeader(req, h4)]

addCookies(o, req) == [req EXCEPT !.Cookies = @ \o o.Cookies]

\* what buildRequest leaves behind when it returns the error err: the
\* client cl, the resolved url, the stream st
failed(roPtr, cl, url, st, err) ==
    [status |-> "error", err |-> err, req |-> None, url |-> url,
     client |-> cl.client, cfg |-> cl.cfg, allocated |-> cl.allocated,
     stream |-> st, sent |-> <<>>,
     caller |-> IF IsNil(roPtr) THEN None ELSE Some(cl.caller)]

\* return httpClient.Do(req): the request is handed to the transport, which
\* answers with a response or with an error
Do(roPtr, cl, url, st, req, transportErr) ==
    [failed(roPtr, cl, url, st, IF transportErr THEN "transport error" ELSE NoErr)
        EXCEPT !.status = IF transportErr THEN "error" ELSE "response",
               !.req = Some(req),
               !.sent = <<[req |-> req, client |-> cl.client]>>]

\* buildRequest from addHTTPHeaders on; h is the result of addHTTPHeaders
addedHeaders(roPtr, o, cl, url, st, h, transportErr) ==
    IF h.panic THEN [failed(roPtr, cl, url, st, NoErr) EXCEPT !.status = "panic"]
    ELSE Do(roPtr, cl, url, st, addCookies(o, h.req), transportErr)

\* buildRequest from the test of buildHTTPRequest's error on
builtRequest(roPtr, o, cl, url, b, order, transportErr) ==
    IF b.err # NoErr THEN failed(roPtr, cl, url, b.stream, b.err)
    ELSE addedHeaders(roPtr, o, cl, url, b.stream,
                      addHTTPHeaders(o, Val(b.req), order), transportErr)

\* buildRequest from the test of buildURLParams' error on
builtURL(method, roPtr, o, cl, u, st, order, transportErr) ==
    IF u.err # NoErr THEN failed(roPtr, cl, u.url, st, u.err)
    ELSE builtRequest(roPtr, o, cl, u.url, buildHTTPRequest(method, u.url, o, st),
                      order, transportErr)

\* buildRequest once the client cl is chosen
builtClient(method, url, roPtr, o, cl, st, order, transportErr) ==
    builtURL(method, roPtr, o, cl,
             IF MapLen(o.Params) # 0 THEN buildURLParams(url, o.Params)
             ELSE [url |-> url, err |-> NoErr],
             st, order, transportErr)

\* buildRequest for the options o
buildRequestWith(method, url, roPtr, o, httpClient, st, alloc, order, transportErr) ==
    builtClient(method, url, roPtr, o,
                IF httpClient = NilClient THEN BuildHTTPClient(o, alloc)
                ELSE [client |-> httpClient, cfg |-> None, allocated |-> alloc, caller |-> o],
                st, order, transportErr)

\* buildRequest: roPtr is the caller's *RequestOptions, order the order in
\* which the Headers map is ranged over, transportErr the outcome of
\* httpClient.Do.  A returned status is "response" or "error"; "panic" is
\* a call that did not return.
buildRequest(method, url, roPtr, httpClient, st, alloc, order, transportErr) ==
    buildRequestWith(method, url, roPtr, IF IsNil(roPtr) THEN EmptyOptions ELSE Val(roPtr),
                     httpClient, st, alloc, order, transportErr)

(***************************************************************************)
(* The inputs of the model.                                                *)
(***************************************************************************)
\* the maps from a subset of K with at most n keys to V
PartialMaps(K, V, n) == UNION { [D -> V] : D \in { E \in SUBSET K : Cardinality(E) <= n } }

RECURSIVE JoinAll(_, _)
JoinAll(items, sep) ==
    IF items = <<>> THEN <<>>
    ELSE IF Len(items) = 1 THEN Head(items)
    ELSE Head(items) \o sep \o JoinAll(Tail(items), sep)

\* scheme, host and path: "u" is well-formed, "u%" has a bad escape
Bases == { <<"u">>, <<"u", "%">> }

\* "a=1", "a=2", "b=1", "c=+", the malformed "a=%", and "b" without a value
QueryItems ==
    { <<"a", "=", "1">>, <<"a", "=", "2">>, <<"b", "=", "1">>, <<"c", "=", "+">>,
      <<"a", "=", "%">>, <<"b">> }

Queries ==
    { JoinAll(q, <<"&">>) : q \in UNION { [1..n -> QueryItems] : n \in 0..MaxQueryItems } }

\* no fragment, the empty fragment "#", the fragment "#f"
Fragments == { <<>>, <<"#">>, <<"#", "f">> }

URLs ==
    { b \o f : b \in Bases, f \in Fragments }
    \cup { b \o <<"?">> \o q \o f : b \in Bases, q \in Queries, f \in Fragments }

ParamKeys == { <<"a">>, <<"b">> }
ParamValues == { <<"1">>, <<"2">>, <<" ">> }
ParamMaps == PartialMaps(ParamKeys, ParamValues, 2)

NoStream == [data |-> <<>>, fails |-> FALSE, failAfter |-> 0, closed |-> 0]

Streams ==
    { [data |-> <<"x", "y">>, fails |-> FALSE, failAfter |-> 0, closed |-> 0] }
    \cup { [data |-> <<"x", "y">>, fails |-> TRUE, failAfter |-> n, closed |-> 0] : n \in 1..2 }

\* the Data maps: nil, empty, and the maps with at most MaxData fields
DataMaps ==
    { None } \cup { Some(m) : m \in PartialMaps({ <<"b">>, <<"a">> }, { <<"1">>, <<" ">> }, MaxData) }

Values == { None, Some("v"), Some("unserializable") }

Files ==
    { None } \cup { Some([FileName |-> n, FileContents |-> c]) :
                    n \in { "f.txt", "f" }, c \in { None, Some("stream") } }

HeaderKeys == { "Content-Type", "content-type", "User-Agent", "Authorization", "X-Requested-With" }

\* the Headers maps; the value of a key names the key it was given under
HeaderMaps ==
    { [k \in D |-> <<"custom", k>>] : D \in { E \in SUBSET HeaderKeys : Cardinality(E) <= MaxHeaders } }

\* the orders in which a map with the keys D can be ranged over
Orders(D) ==
    { o \in [1..Cardinality(D) -> D] : \A i, j \in 1..Cardinality(D) : i # j => o[i] # o[j] }

ProxyMaps == PartialMaps({ "http", "https" }, { "proxyA" }, 2)
    \cup { [k \in { "http", "https" } |-> IF k = "http" THEN "proxyA" ELSE "proxyB"] }

EnvAnswers ==
    { [url |-> "", err |-> NoErr], [url |-> "envProxy", err |-> NoErr],
      [url |-> "", err |-> "invalid proxy address"] }

OutNone ==
    [op |-> "none", status |-> "none", err |-> NoErr, req |-> None, url |-> <<>>,
     client |-> NilClient, cfg |-> None, scheme |-> "", env |-> [url |-> "", err |-> NoErr],
     proxy |-> [url |-> "", err |-> NoErr], session |-> NilClient]

(***************************************************************************)
(* The operations.                                                         *)
(***************************************************************************)
\* buildURLParams has returned r
buildURLParamsReturns(r) ==
    /\ out' = [OutNone EXCEPT !.op = "buildURLParams", !.url = r.url, !.err = r.err,
                              !.status = IF r.err = NoErr THEN "ok" ELSE "error"]
    /\ calls' = calls + 1
    /\ UNCHANGED <<ro, httpMethod, userURL, stream, allocated, dispatched>>

\* buildURLParams(userURL, ro.Params)
BuildURLParamsCall ==
    /\ calls = 0
    /\ ~IsNil(ro)
    /\ buildURLParamsReturns(buildURLParams(userURL, Val(ro).Params))

\* buildHTTPRequest has returned r
buildHTTPRequestReturns(r) ==
    /\ out' = [OutNone EXCEPT !.op = "buildHTTPRequest", !.req = r.req, !.err = r.err,
                              !.url = userURL,
                              !.status = IF r.err = NoErr THEN "ok" ELSE "error"]
    /\ stream' = r.stream
    /\ calls' = calls + 1
    /\ UNCHANGED <<ro, httpMethod, userURL, allocated, dispatched>>

\* buildHTTPRequest(httpMethod, userURL, ro)
BuildHTTPRequestCall ==
    /\ calls = 0
    /\ ~IsNil(ro)
    /\ buildHTTPRequestReturns(buildHTTPRequest(httpMethod, userURL, Val(ro), stream))

\* BuildHTTPClient has returned r
BuildHTTPClientReturns(r) ==
    /\ out' = [OutNone EXCEPT !.op = "BuildHTTPClient", !.client = r.client,
                              !.cfg = r.cfg, !.status = "ok"]
    /\ allocated' = r.allocated
    /\ ro' = Some(r.caller)
    /\ calls' = calls + 1
    /\ UNCHANGED <<httpMethod, userURL, stream, dispatched>>

\* BuildHTTPClient(ro)
BuildHTTPClientCall ==
    /\ calls < MaxCalls
    /\ ~IsNil(ro)
    /\ BuildHTTPClientReturns(BuildHTTPClient(Val(ro), allocated))

\* the transport of the dedicated client built last asks its Proxy function
\* for the proxy of a request
ProxySettingsCall ==
    /\ ~IsNil(out.cfg)
    /\ out.op # "proxySettings"
    /\ \E scheme \in { "http", "https" }, env \in EnvAnswers :
        out' = [out EXCEPT !.op = "proxySettings", !.scheme = scheme, !.env = env,
                           !.proxy = proxySettings(Val(out.cfg).Proxy, scheme, env)]
    /\ UNCHANGED <<ro, httpMethod, userURL, stream, allocated, dispatched, calls>>

\* the options carry an input stream, which can be read once
Uploads(roPtr) ==
    /\ ~IsNil(roPtr)
    /\ ~IsNil(Val(roPtr).File)
    /\ ~IsNil(Val(Val(roPtr).File).FileContents)

\* buildRequest has ended with r
buildRequestReturns(r, httpClient) ==
    /\ out' = [OutNone EXCEPT !.op = "buildRequest", !.status = r.status,
                              !.err = r.err, !.req = r.req, !.url = r.url,
                              !.client = r.client, !.cfg = r.cfg,
                              !.session = httpClient]
    /\ stream' = r.stream
    /\ allocated' = r.allocated
    /\ dispatched' = dispatched \o r.sent
    /\ ro' = r.caller
    /\ calls' = calls + 1
    /\ UNCHANGED <<httpMethod, userURL>>

\* the effect of buildRequest(httpMethod, userURL, ro, httpClient)
Request(httpClient) ==
    /\ calls < MaxCalls
    /\ Uploads(ro) => calls = 0
    /\ \E order \in Orders(DOMAIN (IF IsNil(ro) THEN EmptyOptions ELSE Val(ro)).Headers),
          transportErr \in BOOLEAN :
        buildRequestReturns(buildRequest(httpMethod, userURL, ro, httpClient, stream,
                                         allocated, order, transportErr),
                            httpClient)

doRegularRequest == Request(NilClient)

doSessionRequest == Request(UserClient)

(***************************************************************************)
(* The specifications: each draws the inputs of the operations it applies. *)
(***************************************************************************)
InitWith(o, m, u, st) ==
    /\ ro = o
    /\ httpMethod = m
    /\ userURL = u
    /\ stream = st
    /\ allocated = {}
    /\ dispatched = <<>>
    /\ out = OutNone
    /\ calls = 0

\* the URL merge: query-bearing, fragment-bearing and malformed URLs
InitURL ==
    \E u \in URLs, p \in ParamMaps :
        InitWith(Some([EmptyOptions EXCEPT !.Params = p]), "GET", u, NoStream)

NextURL == BuildURLParamsCall \/ doRegularRequest

SpecURL == InitURL /\ [][NextURL]_vars

\* the body encoder: every combination of the body sources
InitBody ==
    \E j \in Values, x \in Values, f \in Files, d \in DataMaps,
       m \in { "GET", "POST", "PUT" }, u \in { <<"u">>, <<"u", "%">> }, st \in Streams :
        /\ (IsNil(f) \/ IsNil(Val(f).FileContents)) => st.fails = FALSE
        /\ InitWith(Some([EmptyOptions EXCEPT !.JSON = j, !.XML = x, !.File = f, !.Data = d]),
                    m, u,
                    IF IsNil(f) \/ IsNil(Val(f).FileContents) THEN NoStream ELSE st)

NextBody == BuildHTTPRequestCall

SpecBody == InitBody /\ [][NextBody]_vars

\* the client builder: every combination of the transport modifiers
InitClient ==
    \E isv \in BOOLEAN, dc \in BOOLEAN, jar \in BOOLEAN, px \in ProxyMaps,
       ck \in { <<>>, <<"c1">> }, tls \in { 0, 5 }, dt \in { 0, 5 }, ka \in { 0, 5 },
       hc \in { NilClient, UserClient } :
        InitWith(Some([EmptyOptions EXCEPT !.InsecureSkipVerify = isv,
                                          !.DisableCompression = dc, !.UseCookieJar = jar,
                                          !.Proxies = px, !.Cookies = ck,
                                          !.TLSHandshakeTimeout = tls, !.DialTimeout = dt,
                                          !.DialKeepAlive = ka, !.HTTPClient = hc]),
                 "GET", <<"u">>, NoStream)

NextClient == BuildHTTPClientCall \/ ProxySettingsCall \/ doRegularRequest

SpecClient == InitClient /\ [][NextClient]_vars

\* whole requests: failing steps, short Auth lists, nil options
InitRequest ==
    \/ InitWith(None, "GET", <<"u">>, NoStream)
    \/ \E u \in { <<"u">>, <<"u", "?", "a", "=", "1">>, <<"u", "%">> },
          p \in PartialMaps({ <<"a">> }, { <<"2">> }, 1),
          m \in { "GET", "POST" }, j \in Values,
          f \in { None, Some([FileName |-> "f.txt", FileContents |-> None]),
                  Some([FileName |-> "f.txt", FileContents |-> Some("stream")]) },
          st \in Streams,
          a \in { None, Some(<<>>), Some(<<"u">>), Some(<<"u", "p">>), Some(<<"u", "p", "x">>) },
          ck \in { <<>>, <<"c1">> } :
        /\ (IsNil(f) \/ IsNil(Val(f).FileContents)) => st.fails = FALSE
        /\ InitWith(Some([EmptyOptions EXCEPT !.Params = p, !.JSON = j, !.File = f,
                                              !.Auth = a, !.Cookies = ck]),
                    m, u,
                    IF IsNil(f) \/ IsNil(Val(f).FileContents) THEN NoStream ELSE st)

NextRequest == doRegularRequest \/ doSessionRequest

SpecRequest == InitRequest /\ [][NextRequest]_vars

\* the header steps: Headers entries that collide with every other step
InitHeaders ==
    \E h \in HeaderMaps, ua \in { "", "agent" }, ajax \in BOOLEAN,
       a \in { None, Some(<<"u", "p">>) }, j \in { None, Some("v") }, x \in { None, Some("v") },
       f \in { None, Some([FileName |-> "f.txt", FileContents |-> Some("stream")]) },
       d \in { None, Some(EmptyValues) }, m \in { "POST", "PUT" } :
        InitWith(Some([EmptyOptions EXCEPT !.Headers = h, !.UserAgent = ua, !.IsAjax = ajax,
                                          !.Auth = a, !.JSON = j, !.XML = x, !.File = f,
                                          !.Data = d]),
                 m, <<"u">>,
                 IF IsNil(f) THEN NoStream
                 ELSE [data |-> <<"x", "y">>, fails |-> FALSE, failAfter |-> 0, closed |-> 0])

NextHeaders == doRegularRequest \/ doSessionRequest

SpecHeaders == InitHeaders /\ [][NextHeaders]_vars

(***************************************************************************)
(* The claims.                                                             *)
(***************************************************************************)
\* the values of a header, none when it is absent
HeaderValues(h, k) == IF k \in DOMAIN h THEN h[k] ELSE <<>>

\* a step that is a call of buildRequest
RequestStep == calls' = calls + 1 /\ out'.op = "buildRequest"

C2_ParamsMergedIntoQuery ==
    (/\ out.op = "buildURLParams"
     /\ Parse(userURL).err = NoErr
     /\ Parse(userURL).RawQuery # <<>>
     /\ DOMAIN Val(ro).Params # {}) =>
        LET params == Val(ro).Params
            old == ParseQuery(Parse(userURL).RawQuery).m
            res == Parse(out.url)
            new == ParseQuery(res.RawQuery).m
        IN /\ out.err = NoErr
           /\ res.err = NoErr
           /\ DOMAIN new = DOMAIN old \cup DOMAIN params
           /\ \A k \in DOMAIN params : new[k] = <<params[k]>>
           /\ \A k \in DOMAIN old \ DOMAIN params : new[k] = old[k]
           /\ res.Base = Parse(userURL).Base

\* C3: BuildHTTPClient returns options.HTTPClient whenever it is non-nil;
\* otherwise the one default client if and only if all eight override
\* conditions are false, and otherwise a newly constructed client, distinct
\* from the default client and from every client built earlier.
C3_ClientChoice ==
    [][(calls' = calls + 1 /\ out'.op = "BuildHTTPClient") =>
        LET o == Val(ro)
            plain == /\ ~o.InsecureSkipVerify /\ ~o.DisableCompression
                     /\ DOMAIN o.Proxies = {} /\ o.Cookies = <<>>
                     /\ o.TLSHandshakeTimeout = 0 /\ o.DialTimeout = 0
                     /\ o.DialKeepAlive = 0 /\ ~o.UseCookieJar
        IN /\ o.HTTPClient # NilClient =>
                out'.client = o.HTTPClient /\ allocated' = allocated
           /\ o.HTTPClient = NilClient /\ plain =>
                out'.client = DefaultClient /\ allocated' = allocated
           /\ o.HTTPClient = NilClient /\ ~plain =>
                /\ out'.client \notin allocated \cup { NilClient, DefaultClient, UserClient }
                /\ allocated' = allocated \cup { out'.client }]_vars

\* a second dedicated client has been built: only cookies ask for it
C3_Witness ==
    /\ out.op = "BuildHTTPClient"
    /\ Cardinality(allocated) = 2
    /\ out.client \in allocated
    /\ Val(ro).Cookies # <<>>
    /\ ~Val(ro).InsecureSkipVerify /\ ~Val(ro).UseCookieJar /\ DOMAIN Val(ro).Proxies = {}

\* C4: on the multipart upload path (POST, File set with a stream, neither
\* JSON nor XML) the stream's Close has been called exactly once when
\* createMultiPartPostRequest has returned, whether the read succeeded,
\* failed part-way or a later step failed.
C4_StreamClosedOnce ==
    (/\ out.op = "buildHTTPRequest"
     /\ httpMethod = "POST"
     /\ IsNil(Val(ro).JSON) /\ IsNil(Val(ro).XML)
     /\ Uploads(ro)) => stream.closed = 1

\* C5: a POST whose options have File set, neither JSON nor XML, and no
\* FileContents returns an error and the transport executor is not invoked.
C5_MissingStreamNotDispatched ==
    [][(/\ RequestStep
        /\ ~IsNil(ro)
        /\ httpMethod = "POST"
        /\ IsNil(Val(ro).JSON) /\ IsNil(Val(ro).XML)
        /\ ~IsNil(Val(ro).File)
        /\ IsNil(Val(Val(ro).File).FileContents)) =>
            /\ out'.status = "error"
            /\ out'.err # NoErr
            /\ dispatched' = dispatched]_vars

\* the missing stream is what the caller is told about
C5_Witness ==
    /\ out.op = "buildRequest"
    /\ httpMethod = "POST"
    /\ ~IsNil(ro) /\ ~IsNil(Val(ro).File) /\ IsNil(Val(Val(ro).File).FileContents)
    /\ out.status = "error"
    /\ out.err = "grequests: Pointer FileContents cannot be nil"
    /\ dispatched = <<>>

\* C6: with a non-empty Params and a malformed URL or a malformed existing
\* query string, buildRequest returns an error, builds no request and does
\* not invoke the transport executor.
C6_MalformedURLAborts ==
    [][(/\ RequestStep
        /\ ~IsNil(ro)
        /\ DOMAIN Val(ro).Params # {}
        /\ \/ Parse(userURL).err # NoErr
           \/ ParseQuery(Parse(userURL).RawQuery).err # NoErr) =>
            /\ out'.status = "error"
            /\ out'.err # NoErr
            /\ IsNil(out'.req)
            /\ dispatched' = dispatched]_vars

\* C7: the proxy a dedicated client chooses for a request is the
\* environment resolver's answer when Proxies is empty, the map's entry for
\* the request's scheme when the map has it, and the environment resolver's
\* answer when the map is not empty and lacks the scheme.
C7_ProxyChoice ==
    out.op = "proxySettings" =>
        LET proxies == Val(ro).Proxies
        IN /\ DOMAIN proxies = {} => out.proxy = out.env
           /\ out.scheme \in DOMAIN proxies =>
                out.proxy = [url |-> proxies[out.scheme], err |-> NoErr]
           /\ (DOMAIN proxies # {} /\ out.scheme \notin DOMAIN proxies) => out.proxy = out.env

\* the map {"http": proxyA} and an https request: the environment answers
C7_Witness ==
    /\ out.op = "proxySettings"
    /\ DOMAIN Val(ro).Proxies = { "http" }
    /\ out.scheme = "https"
    /\ out.env = [url |-> "envProxy", err |-> NoErr]
    /\ out.proxy = out.env

\* C8: every call of buildRequest ends by returning a response or an error,
\* whatever the options are; no input makes it panic.
C8_AlwaysReturns ==
    out.op = "buildRequest" => out.status \in { "response", "error" }

\* C9: in the dispatched request a Content-Type entry of Headers replaces the
\* content type of the body encoder, User-Agent is the UserAgent option if
\* non-empty and the default identifier otherwise, whatever Headers says,
\* Authorization is the basic-auth value when Auth is set and
\* X-Requested-With is the ajax marker when IsAjax is true; a header no
\* later step sets keeps its Headers value.
C9_HeaderStepOrder ==
    (out.op = "buildRequest" /\ ~IsNil(out.req)) =>
        LET o == Val(ro)
            h == Val(out.req).Header
            given(name) == { k \in DOMAIN o.Headers : CanonicalHeaderKey(k) = name }
            encoded == IF ~IsNil(o.JSON) THEN << <<"application/json">> >>
                       ELSE IF ~IsNil(o.XML) THEN << <<"application/xml">> >>
                       ELSE IF ~IsNil(o.File) THEN
                            (IF httpMethod = "POST" THEN << <<"multipart/form-data">> >>
                             ELSE << <<"text/plain">> >>)
                       ELSE IF ~IsNil(o.Data) THEN << <<"application/x-www-form-urlencoded">> >>
                       ELSE <<>>
        IN /\ dispatched # <<>> /\ dispatched[Len(dispatched)].req = Val(out.req)
           /\ given("Content-Type") # {} =>
                \E k \in given("Content-Type") :
                    HeaderValues(h, "Content-Type") = <<o.Headers[k]>>
           /\ given("Content-Type") = {} => HeaderValues(h, "Content-Type") = encoded
           /\ HeaderValues(h, "User-Agent") =
                << <<IF o.UserAgent # "" THEN o.UserAgent ELSE "GRequests">> >>
           /\ ~IsNil(o.Auth) =>
                HeaderValues(h, "Authorization") = << <<"Basic", Val(o.Auth)[1], Val(o.Auth)[2]>> >>
           /\ (IsNil(o.Auth) /\ given("Authorization") # {}) =>
                HeaderValues(h, "Authorization") = <<o.Headers["Authorization"]>>
           /\ (IsNil(o.Auth) /\ given("Authorization") = {}) =>
                HeaderValues(h, "Authorization") = <<>>
           /\ o.IsAjax => HeaderValues(h, "X-Requested-With") = << <<"XMLHttpRequest">> >>
           /\ (~o.IsAjax /\ given("X-Requested-With") # {}) =>
                HeaderValues(h, "X-Requested-With") = <<o.Headers["X-Requested-With"]>>

\* Headers overrides the JSON content type and loses on User-Agent
C9_Witness ==
    /\ out.op = "buildRequest"
    /\ ~IsNil(out.req)
    /\ ~IsNil(Val(ro).JSON)
    /\ { "Content-Type", "User-Agent" } \subseteq DOMAIN Val(ro).Headers
    /\ Val(ro).UserAgent = ""
    /\ HeaderValues(Val(out.req).Header, "Content-Type") = << <<"custom", "Content-Type">> >>
    /\ HeaderValues(Val(out.req).Header, "User-Agent") = << <<"GRequests">> >>

====
